---- MODULE Spec2Model ----
(***************************************************************************)
(* A model of the stealth-paint command log (src/src/command.rs), its      *)
(* liveness scan, the descriptor helpers it uses (src/src/buffer.rs) and   *)
(* the image pool (src/src/pool.rs).                                       *)
(*                                                                         *)
(* Registers are 0-based indices into the log as in the source; the log    *)
(* is a TLA+ sequence, so register r names ops[r + 1].                     *)
(***************************************************************************)
EXTENDS Integers, Sequences, FiniteSets, TLC

VARIABLES
    ops,        \* CommandBuffer.ops: the log
    prev_ops,   \* the log as it was when the last call was made
    produced,   \* number of successful register-producing builder calls so far
    items,      \* Pool.items: key -> Image
    prev_items, \* Pool.items as it was when the last call was made
    created,    \* key -> the layout the image had when it was created
    call,       \* the last call: its name and its arguments
    ret         \* what the last call returned (and left in its &mut arguments)

vars == <<ops, prev_ops, produced, items, prev_items, created, call, ret>>
logvars == <<ops, prev_ops, produced>>
poolvars == <<items, prev_items, created>>

\* The longest log the model builds.
MaxOps == 3

None == [tag |-> "None"]

Max(a, b) == IF a >= b THEN a ELSE b
Min(a, b) == IF a <= b THEN a ELSE b

(***************************************************************************)
(* buffer.rs: colors, texels, layouts, descriptors                         *)
(***************************************************************************)

\* Color::SRGB
SRGB ==
    [tag |-> "Rgb", luminance |-> "Sdr", primary |-> "Bt709",
     transfer |-> "Srgb", whitepoint |-> "D65"]

\* An Rgb color that differs from SRGB only in its whitepoint.
RgbD50 ==
    [tag |-> "Rgb", luminance |-> "Sdr", primary |-> "Bt709",
     transfer |-> "Srgb", whitepoint |-> "D50"]

\* Color::Oklab
Oklab == [tag |-> "Oklab"]

\* SampleBits::bytes
bytes(bits) ==
    CASE bits \in {"Int8", "Int332", "Int233"} -> 1
      [] bits \in {"Int8x2", "Int16", "Int565", "Int4x4", "Int444_", "Int_444"} -> 2
      [] bits = "Int8x3" -> 3
      [] bits \in {"Int8x4", "Int16x2", "Int1010102", "Int2101010",
                   "Int101010_", "Int_101010"} -> 4
      [] bits = "Int16x3" -> 6
      [] bits \in {"Int16x4", "Float16x4"} -> 8
      [] bits = "Float32x4" -> 16

\* Descriptor::is_consistent
is_consistent(desc) ==
    bytes(desc.texel.samples.bits) = desc.layout.bytes_per_texel

\* Color::is_consistent
color_is_consistent(color, parts) ==
    CASE color.tag = "Rgb" ->
             parts \in {"R", "G", "B", "Rgb", "Rgba", "Rgb_", "_Rgb", "Bgr_", "_Bgr"}
      [] color.tag = "Oklab" -> parts \in {"LCh", "LChA"}
      [] color.tag = "Scalars" -> TRUE
      [] OTHER -> FALSE

\* Descriptor::is_coherent, called by CommandBuffer::input; the source holds no
\* definition of it.  Modelled from the specification of input: "descriptor is
\* self-consistent", "type error if inconsistent".
is_coherent(desc) == is_consistent(desc)

\* Texel::channel_texel: the parts selected by the channel, or None
channel_parts(parts, channel) ==
    IF parts \in {"Rgb", "Rgb_", "Bgr_", "_Rgb", "_Bgr"}
    THEN CASE channel = "R" -> "R"
           [] channel = "G" -> "G"
           [] channel = "B" -> "B"
           [] OTHER -> "None"
    ELSE IF parts \in {"Rgba", "Bgra", "Abgr", "Argb"}
    THEN CASE channel = "R" -> "R"
           [] channel = "G" -> "G"
           [] channel = "B" -> "B"
           [] channel = "Alpha" -> "A"
           [] OTHER -> "None"
    ELSE "None"

\* Texel::channel_texel: the bits of a single channel, or None
channel_bits(bits) ==
    IF bits \in {"Int8", "Int8x3", "Int8x4"} THEN "Int8" ELSE "None"

\* Texel::channel_texel
texel_channel_texel(texel, channel) ==
    LET parts == channel_parts(texel.samples.parts, channel)
        bits == channel_bits(texel.samples.bits)
    IN  IF parts = "None" THEN None
        ELSE IF bits = "None" THEN None
        ELSE [block |-> texel.block,
              samples |-> [parts |-> parts, bits |-> bits],
              color |-> texel.color]

\* Descriptor::channel_texel
channel_texel(desc, channel) == texel_channel_texel(desc.texel, channel)

MkTexel(block, parts, bits, color) ==
    [block |-> block, samples |-> [parts |-> parts, bits |-> bits], color |-> color]

MkLayout(width, height, bytes_per_texel) ==
    [width |-> width, height |-> height, bytes_per_texel |-> bytes_per_texel,
     bytes_per_row |-> width * bytes_per_texel]

MkDesc(layout, texel) == [layout |-> layout, texel |-> texel]

TexRgba == MkTexel("Pixel", "Rgba", "Int8x4", SRGB)
TexR == MkTexel("Pixel", "R", "Int8", SRGB)
TexRgbD50 == MkTexel("Pixel", "Rgb", "Int8x3", RgbD50)
TexLCh == MkTexel("Pixel", "LCh", "Int8x3", Oklab)

\* The texels callers pass to color_convert.
Texels == {TexRgba, TexRgbD50, TexLCh}

\* A descriptor that is not consistent: a four byte sample encoding in a three
\* byte layout.
DescBad == MkDesc(MkLayout(1, 1, 3), TexRgba)

\* The descriptors callers pass to input and input_from.
Descs ==
    { MkDesc(MkLayout(2, 1, 4), TexRgba),
      MkDesc(MkLayout(1, 1, 4), TexRgba),
      MkDesc(MkLayout(1, 1, 1), TexR),
      MkDesc(MkLayout(1, 1, 3), TexRgbD50),
      DescBad }

\* The descriptors callers pass to solid.
SolidDescs == {MkDesc(MkLayout(1, 1, 4), TexRgba), DescBad}

\* The channels callers pass to extract and inject.
Channels == {"R", "Alpha"}

(***************************************************************************)
(* command.rs: Rectangle                                                   *)
(***************************************************************************)

\* Unsigned 32-bit values are modelled as 0 .. U32 - 1: the word is scaled down
\* so that saturation and wrap-around happen within the values enumerated.
U32 == 8

saturating_sub(a, b) == IF a >= b THEN a - b ELSE 0

saturating_add(a, b) == IF a + b >= U32 THEN U32 - 1 ELSE a + b

\* A u32 multiplication: a build with overflow checks panics when the product
\* leaves the word, a build without them wraps.
mul_outcomes(tag, a, b) ==
    IF a * b >= U32
    THEN {[tag |-> "Panic"], [tag |-> tag, val |-> (a * b) % U32]}
    ELSE {[tag |-> tag, val |-> a * b]}

MkRect(x, y, max_x, max_y) == [x |-> x, y |-> y, max_x |-> max_x, max_y |-> max_y]

\* Rectangle::with_width_height
with_width_height(width, height) == MkRect(0, 0, width, height)

\* Rectangle::with_layout
with_layout(buffer) == with_width_height(buffer.width, buffer.height)

\* Rectangle::width
width(r) == saturating_sub(r.max_x, r.x)

\* Rectangle::height
height(r) == saturating_sub(r.max_y, r.y)

\* u32::checked_sub
checked_sub(a, b) == IF a >= b THEN a - b ELSE -1

\* A mutant of contains: the remaining width and height must exceed those of
\* other.
contains_strict(self, other) ==
    /\ self.x <= other.x
    /\ self.y <= other.y
    /\ LET offset_x == other.x - self.x
           offset_y == other.y - self.y
           rel_width == checked_sub(width(self), offset_x)
           rel_height == checked_sub(height(self), offset_y)
       IN  rel_width > width(other) /\ rel_height > height(other)

\* Rectangle::contains; Option<u32> is compared with None below every Some
contains(self, other) ==
    /\ self.x <= other.x
    /\ self.y <= other.y
    /\ LET offset_x == other.x - self.x
           offset_y == other.y - self.y
           rel_width == checked_sub(width(self), offset_x)
           rel_height == checked_sub(height(self), offset_y)
       IN  rel_width >= width(other) /\ rel_height >= height(other)

\* Rectangle::meet
meet(self, other) ==
    MkRect(Max(self.x, other.x), Max(self.y, other.y),
           Min(self.max_x, other.max_x), Min(self.max_y, other.max_y))

\* Rectangle::join
join(self, other) ==
    MkRect(Min(self.x, other.x), Min(self.y, other.y),
           Max(self.max_x, other.max_x), Max(self.max_y, other.max_y))

\* Rectangle::normalize: the additions that exceed u32, on which a build with
\* overflow checks panics and a build without them wraps.  x + width is
\* max_x or x; y + width can exceed u32.
normalize_overflows(r) == r.x + width(r) >= U32 \/ r.y + width(r) >= U32

\* Rectangle::normalize; both maxima are computed from the width, and the
\* additions wrap as u32 additions do in a release build
normalize(r) ==
    MkRect(r.x, r.y, (r.x + width(r)) % U32, (r.y + width(r)) % U32)

\* Rectangle::normalize: what a call can do, by the build
normalize_outcomes(r) ==
    IF normalize_overflows(r)
    THEN {[tag |-> "Panic"], [tag |-> "normalize", val |-> normalize(r)]}
    ELSE {[tag |-> "normalize", val |-> normalize(r)]}

\* Rectangle::inset
inset(self, border) ==
    MkRect(saturating_add(self.x, border), saturating_add(self.y, border),
           saturating_sub(self.max_x, border), saturating_sub(self.max_y, border))

\* The rectangles callers pass to inscribe: the full extents of the layouts
\* above.
Rects == {with_width_height(2, 1), with_width_height(1, 1)}

\* The rectangles callers pass to crop: a full extent and a degenerate one.
CropRects == {with_width_height(1, 1), MkRect(2, 2, 0, 0)}

(***************************************************************************)
(* command.rs: Op, CommandError, describe_reg, push                        *)
(***************************************************************************)

OpInput(desc) == [kind |-> "Input", desc |-> desc]
OpOutput(src) == [kind |-> "Output", src |-> src]
OpConstruct(desc, op) == [kind |-> "Construct", desc |-> desc, op |-> op]
OpUnary(src, op, desc) == [kind |-> "Unary", src |-> src, op |-> op, desc |-> desc]
OpBinary(lhs, rhs, op, desc) ==
    [kind |-> "Binary", lhs |-> lhs, rhs |-> rhs, op |-> op, desc |-> desc]

\* CommandError::TYPE_ERR
TYPE_ERR == [type_err |-> TRUE]
\* CommandError::OTHER
OTHER_ERR == [type_err |-> FALSE]
\* CommandError::BAD_REGISTER
BAD_REGISTER == OTHER_ERR

Ok(v) == [tag |-> "Ok", val |-> v]
Err(e) == [tag |-> "Err", err |-> e]

\* What a builder leaves behind: the log and its return value.
After(log, result) == [ops |-> log, result |-> result]

\* Descriptor::EMPTY
EMPTY == MkDesc(MkLayout(0, 0, 4), TexRgba)

\* A mutant of describe_reg: an index outside the log resolves to the empty
\* descriptor instead of failing.
describe_reg_any_index(log, reg) ==
    IF reg >= Len(log) THEN Ok(EMPTY)
    ELSE IF log[reg + 1].kind = "Output" THEN Err(BAD_REGISTER)
    ELSE Ok(log[reg + 1].desc)

\* A mutant of describe_reg: an Output instruction resolves to the empty
\* descriptor instead of failing.
describe_reg_output_ok(log, reg) ==
    IF reg >= Len(log) THEN Err(BAD_REGISTER)
    ELSE IF log[reg + 1].kind = "Output" THEN Ok(EMPTY)
    ELSE Ok(log[reg + 1].desc)

\* CommandBuffer::describe_reg
describe_reg(log, reg) ==
    IF reg >= Len(log) THEN Err(BAD_REGISTER)
    ELSE IF log[reg + 1].kind = "Output" THEN Err(BAD_REGISTER)
    ELSE Ok(log[reg + 1].desc)

\* A mutant of push: the instruction is recorded in front of the log.
push_front(log, op) == After(<<op>> \o log, Ok(Len(log)))

\* A mutant of push: the register is taken after the instruction is appended.
push_after(log, op) == After(Append(log, op), Ok(Len(log) + 1))

\* CommandBuffer::push
push(log, op) == After(Append(log, op), Ok(Len(log)))

(***************************************************************************)
(* command.rs: the builder operations.  Each takes the log and the call's  *)
(* arguments and yields the log it leaves and the value it returns.        *)
(***************************************************************************)

\* CommandBuffer::input
input(log, desc) ==
    IF ~is_coherent(desc) THEN After(log, Err(TYPE_ERR))
    ELSE push(log, OpInput(desc))

\* CommandBuffer::input_from; img is what PoolImage::descriptor yields
input_from(log, img) ==
    IF img = None THEN After(log, Err(OTHER_ERR))
    ELSE input(log, img)

\* A mutant of crop: a rectangle that the extent of src does not contain is
\* refused.
crop_within_extent(log, src, rect) ==
    LET d == describe_reg(log, src)
    IN  IF d.tag = "Err" THEN After(log, d)
        ELSE IF ~contains(with_layout(d.val.layout), rect)
        THEN After(log, Err(OTHER_ERR))
        ELSE push(log, OpUnary(src, [tag |-> "Crop", rect |-> rect], d.val))

\* CommandBuffer::crop
crop(log, src, rect) ==
    LET d == describe_reg(log, src)
    IN  IF d.tag = "Err" THEN After(log, d)
        ELSE push(log, OpUnary(src, [tag |-> "Crop", rect |-> rect], d.val))

\* A mutant of color_convert: the whitepoints are not compared.
color_convert_any_whitepoint(log, src, texel) ==
    LET d == describe_reg(log, src)
    IN  IF d.tag = "Err" THEN After(log, d)
        ELSE IF ~(d.val.texel.color.tag = "Rgb" /\ texel.color.tag = "Rgb")
        THEN After(log, Err(TYPE_ERR))
        ELSE LET layout == [width |-> d.val.layout.width,
                            height |-> d.val.layout.height,
                            bytes_per_texel |-> bytes(texel.samples.bits)]
             IN  push(log, OpUnary(src,
                                   [tag |-> "ColorConvert", color |-> texel.color],
                                   MkDesc(layout, texel)))

\* CommandBuffer::color_convert.  Color::Xyz is the whitepoint-carrying,
\* XYZ-observer based variant, which buffer.rs names Color::Rgb.  The layout
\* is the struct literal of the source, which sets three fields.
color_convert(log, src, texel) ==
    LET d == describe_reg(log, src)
    IN  IF d.tag = "Err" THEN After(log, d)
        ELSE IF ~(/\ d.val.texel.color.tag = "Rgb"
                  /\ texel.color.tag = "Rgb"
                  /\ d.val.texel.color.whitepoint = texel.color.whitepoint)
        THEN After(log, Err(TYPE_ERR))
        ELSE LET layout == [width |-> d.val.layout.width,
                            height |-> d.val.layout.height,
                            bytes_per_texel |-> bytes(texel.samples.bits)]
             IN  push(log, OpUnary(src,
                                   [tag |-> "ColorConvert", color |-> texel.color],
                                   MkDesc(layout, texel)))

\* A mutant of inscribe: the instruction is recorded before the rectangle is
\* checked against the extent of below.
inscribe_push_first(log, below, rect, above) ==
    LET db == describe_reg(log, below)
        da == describe_reg(log, above)
    IN  IF db.tag = "Err" THEN After(log, db)
        ELSE IF da.tag = "Err" THEN After(log, da)
        ELSE IF da.val.texel # db.val.texel THEN After(log, Err(TYPE_ERR))
        ELSE IF with_layout(da.val.layout) # rect THEN After(log, Err(OTHER_ERR))
        ELSE LET pushed == push(log, OpBinary(below, above,
                                 [tag |-> "Inscribe", placement |-> normalize(rect)],
                                 db.val))
             IN  IF ~contains(with_layout(db.val.layout), rect)
                 THEN After(pushed.ops, Err(OTHER_ERR))
                 ELSE pushed

\* A mutant of inscribe: the rectangle is not checked against the extent of
\* below.
inscribe_no_contains(log, below, rect, above) ==
    LET db == describe_reg(log, below)
        da == describe_reg(log, above)
    IN  IF db.tag = "Err" THEN After(log, db)
        ELSE IF da.tag = "Err" THEN After(log, da)
        ELSE IF da.val.texel # db.val.texel THEN After(log, Err(TYPE_ERR))
        ELSE IF with_layout(da.val.layout) # rect THEN After(log, Err(OTHER_ERR))
        ELSE push(log, OpBinary(below, above,
                                [tag |-> "Inscribe", placement |-> normalize(rect)],
                                db.val))

\* CommandBuffer::inscribe
inscribe(log, below, rect, above) ==
    LET db == describe_reg(log, below)
        da == describe_reg(log, above)
    IN  IF db.tag = "Err" THEN After(log, db)
        ELSE IF da.tag = "Err" THEN After(log, da)
        ELSE IF da.val.texel # db.val.texel THEN After(log, Err(TYPE_ERR))
        ELSE IF with_layout(da.val.layout) # rect THEN After(log, Err(OTHER_ERR))
        ELSE IF ~contains(with_layout(db.val.layout), rect)
        THEN After(log, Err(OTHER_ERR))
        ELSE push(log, OpBinary(below, above,
                                [tag |-> "Inscribe", placement |-> normalize(rect)],
                                db.val))

\* A mutant of extract: a channel that cannot be projected yields a register
\* of src's texel.
extract_keep_texel(log, src, channel) ==
    LET d == describe_reg(log, src)
    IN  IF d.tag = "Err" THEN After(log, d)
        ELSE LET texel == channel_texel(d.val, channel)
             IN  push(log, OpUnary(src,
                                   [tag |-> "Extract", channel |-> channel],
                                   MkDesc(d.val.layout,
                                          IF texel = None THEN d.val.texel
                                          ELSE texel)))

\* CommandBuffer::extract
extract(log, src, channel) ==
    LET d == describe_reg(log, src)
    IN  IF d.tag = "Err" THEN After(log, d)
        ELSE LET texel == channel_texel(d.val, channel)
             IN  IF texel = None THEN After(log, Err(OTHER_ERR))
                 ELSE push(log, OpUnary(src,
                                        [tag |-> "Extract", channel |-> channel],
                                        MkDesc(d.val.layout, texel)))

\* A mutant of inject: the texel of above is not compared with the projection.
inject_unchecked_above(log, below, channel, above) ==
    LET db == describe_reg(log, below)
    IN  IF db.tag = "Err" THEN After(log, db)
        ELSE LET expected_texel == channel_texel(db.val, channel)
                 da == describe_reg(log, above)
             IN  IF expected_texel = None THEN After(log, Err(OTHER_ERR))
                 ELSE IF da.tag = "Err" THEN After(log, da)
                 ELSE push(log, OpBinary(below, above,
                                         [tag |-> "Inject", channel |-> channel],
                                         db.val))

\* A mutant of inject: the instruction carries the descriptor of above.
inject_above_desc(log, below, channel, above) ==
    LET db == describe_reg(log, below)
    IN  IF db.tag = "Err" THEN After(log, db)
        ELSE LET expected_texel == channel_texel(db.val, channel)
                 da == describe_reg(log, above)
             IN  IF expected_texel = None THEN After(log, Err(OTHER_ERR))
                 ELSE IF da.tag = "Err" THEN After(log, da)
                 ELSE IF expected_texel # da.val.texel THEN After(log, Err(TYPE_ERR))
                 ELSE push(log, OpBinary(below, above,
                                         [tag |-> "Inject", channel |-> channel],
                                         da.val))

\* CommandBuffer::inject
inject(log, below, channel, above) ==
    LET db == describe_reg(log, below)
    IN  IF db.tag = "Err" THEN After(log, db)
        ELSE LET expected_texel == channel_texel(db.val, channel)
                 da == describe_reg(log, above)
             IN  IF expected_texel = None THEN After(log, Err(OTHER_ERR))
                 ELSE IF da.tag = "Err" THEN After(log, da)
                 ELSE IF expected_texel # da.val.texel THEN After(log, Err(TYPE_ERR))
                 ELSE push(log, OpBinary(below, above,
                                         [tag |-> "Inject", channel |-> channel],
                                         db.val))

\* CommandBuffer::blend
blend(log, below, rect, above, mode) == After(log, Err(OTHER_ERR))

\* CommandBuffer::solid
solid(log, describe, data) ==
    IF Len(data) # describe.layout.bytes_per_texel THEN After(log, Err(TYPE_ERR))
    ELSE push(log, OpConstruct(describe, [tag |-> "Solid", data |-> data]))

\* CommandBuffer::affine
affine(log, src, transformation) ==
    LET d == describe_reg(log, src)
    IN  IF d.tag = "Err" THEN After(log, d)
        ELSE push(log, OpUnary(src,
                               [tag |-> "Affine", transformation |-> transformation],
                               d.val))

\* A mutant of output: the descriptor is returned and nothing is recorded.
output_not_recorded(log, src) ==
    LET d == describe_reg(log, src)
    IN  IF d.tag = "Err" THEN After(log, d)
        ELSE After(log, Ok(d.val))

\* CommandBuffer::output: the register push returns is dropped
output(log, src) ==
    LET d == describe_reg(log, src)
    IN  IF d.tag = "Err" THEN After(log, d)
        ELSE After(push(log, OpOutput(src)).ops, Ok(d.val))

(***************************************************************************)
(* command.rs: compile, the liveness scan                                  *)
(***************************************************************************)

\* A mutant of use: last_use[reg] and first_use[reg] are set to idx, whatever
\* they held.
use_overwrite(lv, reg, idx) ==
    IF lv.panic \/ reg \notin DOMAIN lv.last_use
    THEN [lv EXCEPT !.panic = TRUE]
    ELSE [lv EXCEPT !.last_use[reg] = idx, !.first_use[reg] = idx]

\* The instruction at idx reads reg: last_use[reg] and first_use[reg] are
\* extended to idx.  Indexing outside the vectors panics.
use(lv, reg, idx) ==
    IF lv.panic \/ reg \notin DOMAIN lv.last_use
    THEN [lv EXCEPT !.panic = TRUE]
    ELSE [lv EXCEPT !.last_use[reg] = Max(lv.last_use[reg], idx),
                    !.first_use[reg] = Min(lv.first_use[reg], idx)]

\* A mutant of scan_op: a Binary instruction extends only its lhs.
scan_op_lhs_only(lv, op, idx) ==
    CASE op.kind \in {"Input", "Construct"} -> lv
      [] op.kind = "Output" -> use(lv, op.src, idx)
      [] op.kind = "Unary" -> use(lv, op.src, idx)
      [] op.kind = "Binary" -> use(lv, op.lhs, idx)

\* CommandBuffer::compile, the body of the scan's match
scan_op(lv, op, idx) ==
    CASE op.kind \in {"Input", "Construct"} -> lv
      [] op.kind = "Output" -> use(lv, op.src, idx)
      [] op.kind = "Unary" -> use(lv, op.src, idx)
      [] op.kind = "Binary" -> use(use(lv, op.rhs, idx), op.lhs, idx)

\* A mutant of scan: the position in the reversed iteration is taken for the
\* index of the instruction.
RECURSIVE scan_forward(_, _, _)
scan_forward(log, back_idx, lv) ==
    IF back_idx >= Len(log) THEN lv
    ELSE LET idx == Len(log) - 1 - back_idx
         IN  scan_forward(log, back_idx + 1, scan_op(lv, log[idx + 1], back_idx))

\* CommandBuffer::compile, the loop over self.ops.iter().rev().enumerate()
RECURSIVE scan(_, _, _)
scan(log, back_idx, lv) ==
    IF back_idx >= Len(log) THEN lv
    ELSE LET idx == Len(log) - 1 - back_idx
         IN  scan(log, back_idx + 1, scan_op(lv, log[idx + 1], idx))

\* A mutant of liveness_init: first_use starts at 0 like last_use.
liveness_init_zero(steps) ==
    [last_use |-> [r \in 0..(steps - 1) |-> 0],
     first_use |-> [r \in 0..(steps - 1) |-> 0],
     panic |-> FALSE]

\* A mutant of liveness_init: the vectors are created with room for steps
\* elements and hold none.
liveness_init_empty(steps) ==
    [last_use |-> <<>>, first_use |-> <<>>, panic |-> FALSE]

\* CommandBuffer::compile, last_use = vec![0; steps], first_use = vec![steps; steps]
liveness_init(steps) ==
    [last_use |-> [r \in 0..(steps - 1) |-> 0],
     first_use |-> [r \in 0..(steps - 1) |-> steps],
     panic |-> FALSE]

\* CommandBuffer::compile: the program it returns (high_ops stays empty) and
\* the liveness vectors as they stand when it returns
compile(log) ==
    LET lv == scan(log, 0, liveness_init(Len(log)))
    IN  IF lv.panic THEN [tag |-> "Panic"]
        ELSE [tag |-> "Ok", val |-> [ops |-> <<>>],
              last_use |-> lv.last_use, first_use |-> lv.first_use]

(***************************************************************************)
(* The command log as a state machine: one action per operation           *)
(***************************************************************************)

\* The registers callers pass: the indices of the longest log.  Builders are
\* called on shorter logs only, where the last of them is out of range.
Regs == 0..(MaxOps - 1)

\* The texel data callers pass to solid.
Datas == {<<0, 0, 0>>, <<0, 0, 0, 0>>}

\* The transformations callers pass to affine (the matrix entries, abstracted).
Affines == {"identity"}

Producing ==
    {"input", "input_from", "crop", "color_convert", "inscribe", "extract",
     "inject", "solid", "affine"}

\* A builder call c that leaves the log and the return value of r.
Builder(c, r) ==
    /\ Len(ops) < MaxOps
    /\ ops' = r.ops
    /\ prev_ops' = ops
    /\ call' = c
    /\ ret' = r.result
    /\ produced' = IF r.result.tag = "Ok" /\ c.op \in Producing
                   THEN produced + 1 ELSE produced
    /\ UNCHANGED poolvars

Input ==
    \E desc \in Descs :
        Builder([op |-> "input", regs |-> <<>>], input(ops, desc))

InputFrom ==
    \E img \in Descs \cup {None} :
        Builder([op |-> "input_from", regs |-> <<>>], input_from(ops, img))

Crop ==
    \E src \in Regs, rect \in CropRects :
        Builder([op |-> "crop", regs |-> <<src>>], crop(ops, src, rect))

ColorConvert ==
    \E src \in Regs, texel \in Texels :
        Builder([op |-> "color_convert", regs |-> <<src>>, texel |-> texel],
                color_convert(ops, src, texel))

Inscribe ==
    \E below \in Regs, above \in Regs, rect \in Rects :
        Builder([op |-> "inscribe", regs |-> <<below, above>>, rect |-> rect],
                inscribe(ops, below, rect, above))

Extract ==
    \E src \in Regs, channel \in Channels :
        Builder([op |-> "extract", regs |-> <<src>>, channel |-> channel],
                extract(ops, src, channel))

Inject ==
    \E below \in Regs, above \in Regs, channel \in Channels :
        Builder([op |-> "inject", regs |-> <<below, above>>, channel |-> channel],
                inject(ops, below, channel, above))

\* blend reads none of its arguments: below ranges over the registers, above,
\* the rectangle and the mode are fixed.
Blend ==
    \E below \in Regs :
        Builder([op |-> "blend", regs |-> <<below, 0>>],
                blend(ops, below, with_width_height(1, 1), 0, "Alpha"))

Solid ==
    \E describe \in SolidDescs, data \in Datas :
        Builder([op |-> "solid", regs |-> <<>>], solid(ops, describe, data))

AffineOp ==
    \E src \in Regs, t \in Affines :
        Builder([op |-> "affine", regs |-> <<src>>], affine(ops, src, t))

Output ==
    \E src \in Regs :
        Builder([op |-> "output", regs |-> <<src>>], output(ops, src))

\* again: the call before this one was a compile too
Compile ==
    /\ call' = [op |-> "compile", regs |-> <<>>, again |-> call.op = "compile"]
    /\ ret' = compile(ops)
    /\ prev_ops' = ops
    /\ UNCHANGED <<ops, produced>>
    /\ UNCHANGED poolvars

Init ==
    /\ ops = <<>>
    /\ prev_ops = <<>>
    /\ produced = 0
    /\ items = <<>>
    /\ prev_items = <<>>
    /\ created = <<>>
    /\ call = [op |-> "new", regs |-> <<>>]
    /\ ret = None

Next ==
    \/ Input
    \/ InputFrom
    \/ Crop
    \/ ColorConvert
    \/ Inscribe
    \/ Extract
    \/ Inject
    \/ Blend
    \/ Solid
    \/ AffineOp
    \/ Output
    \/ Compile

Spec == Init /\ [][Next]_vars

(***************************************************************************)
(* buffer.rs: ImageBuffer; pool.rs: ImageMeta, ImageData, Image            *)
(***************************************************************************)

Some(v) == [tag |-> "Some", val |-> v]

\* BufferLayout::byte_len
byte_len(layout) == layout.bytes_per_row * layout.height

\* ImageBuffer::with_layout: Canvas::new gives a zeroed buffer of the layout's
\* length
buffer_with_layout(layout) ==
    [layout |-> layout, bytes |-> [i \in 1..byte_len(layout) |-> 0]]

\* ImageData::Host
Host(buffer) == [kind |-> "Host", host |-> buffer]
\* ImageData::Gpu
Gpu(buffer, layout, gpu) ==
    [kind |-> "Gpu", handle |-> buffer, layout |-> layout, gpu |-> gpu]
\* ImageData::GpuTexture
GpuTexture(texture, layout, gpu) ==
    [kind |-> "GpuTexture", handle |-> texture, layout |-> layout, gpu |-> gpu]
\* ImageData::LateBound
LateBound(layout) == [kind |-> "LateBound", layout |-> layout]

\* ImageMeta::default
meta_default == [no_read |-> FALSE, no_write |-> FALSE]

\* ImageData::as_bytes
data_as_bytes(data) ==
    IF data.kind = "Host" THEN Some(data.host.bytes) ELSE None

\* ImageData::layout
data_layout(data) ==
    IF data.kind = "Host" THEN data.host.layout ELSE data.layout

\* A mutant of ImageData::host_allocate: the buffer is allocated with the
\* layout of one texel of one byte, whatever the layout of the data.
data_host_allocate_one_texel(data) ==
    [data |-> Host(buffer_with_layout(MkLayout(1, 1, 1))), result |-> data]

\* ImageData::host_allocate: the data it leaves and the data it returns
data_host_allocate(data) ==
    [data |-> Host(buffer_with_layout(data_layout(data))), result |-> data]

(***************************************************************************)
(* pool.rs: PoolImageMut, the handle on one Image.  Each operation takes   *)
(* the image (and the caller's data) and yields the image it leaves, the   *)
(* caller's data it leaves and the value it returns; a failed assertion    *)
(* panics, leaves both as they were and returns nothing.                   *)
(***************************************************************************)

Handled(image, other, result) ==
    [image |-> image, other |-> other, result |-> result, panic |-> FALSE]

Panicked(image, other) ==
    [image |-> image, other |-> other, result |-> None, panic |-> TRUE]

\* PoolImageMut::layout
layout(image) == data_layout(image.data)

\* PoolImageMut::as_bytes
as_bytes(image) == data_as_bytes(image.data)

\* PoolImageMut::as_bytes_mut, and the caller's write of byte at index through
\* the slice it returns: Some for host data, None and no slice otherwise.  A
\* slice that is too short for the index is left unwritten.
as_bytes_mut(image, index, byte) ==
    IF image.data.kind # "Host" THEN Handled(image, None, None)
    ELSE IF index \notin DOMAIN image.data.host.bytes
    THEN Handled(image, None, "Unit")
    ELSE Handled([image EXCEPT !.data.host.bytes[index] = byte], None, "Unit")

\* PoolImageMut::descriptor
descriptor(image) == [layout |-> layout(image), texel |-> image.texel]

\* PoolImageMut::meta
meta(image) == image.meta

\* A mutant of set_color: the color is not checked against the sample parts.
set_color_unchecked(image, color) ==
    Handled([image EXCEPT !.texel.color = color], None, "Unit")

\* PoolImageMut::set_color
set_color(image, color) ==
    IF ~color_is_consistent(color, image.texel.samples.parts)
    THEN Panicked(image, None)
    ELSE Handled([image EXCEPT !.texel.color = color], None, "Unit")

\* PoolImageMut::host_allocate
host_allocate(image) ==
    LET r == data_host_allocate(image.data)
    IN  Handled([image EXCEPT !.data = r.data], None, r.result)

\* PoolImageMut::host_copy
host_copy(image) ==
    LET data == as_bytes(image)
    IN  IF data = None THEN None
        ELSE Some([buffer_with_layout(layout(image)) EXCEPT !.bytes = data.val])

\* A mutant of replace: the data is installed without comparing the layouts.
replace_unchecked(image, new) ==
    Handled([image EXCEPT !.data = new], None, image.data)

\* PoolImageMut::replace
replace(image, new) ==
    IF layout(image) # data_layout(new) THEN Panicked(image, None)
    ELSE Handled([image EXCEPT !.data = new], None, image.data)

\* A mutant of swap: the entry takes the caller's data and the caller's data is
\* left as it was.
swap_one_way(image, other) ==
    IF layout(image) # data_layout(other) THEN Panicked(image, other)
    ELSE Handled([image EXCEPT !.data = other], other, "Unit")

\* PoolImageMut::swap
swap(image, other) ==
    IF layout(image) # data_layout(other) THEN Panicked(image, other)
    ELSE Handled([image EXCEPT !.data = other], image.data, "Unit")

\* A mutant of trade: the copy branch moves the entry's buffer out and leaves
\* the entry with a fresh allocation.
trade_move_out(image, other) ==
    IF meta(image).no_read THEN
        LET s == swap(image, other)
        IN  IF s.panic THEN s ELSE Handled(s.image, s.other, TRUE)
    ELSE LET copy == host_copy(image)
         IN  IF copy # None
             THEN Handled(host_allocate(image).image, Host(copy.val), TRUE)
             ELSE Handled(image, other, FALSE)

\* A mutant of trade: when no copy can be made the stores are swapped and the
\* failure is still reported.
trade_swap_on_failure(image, other) ==
    IF meta(image).no_read THEN
        LET s == swap(image, other)
        IN  IF s.panic THEN s ELSE Handled(s.image, s.other, TRUE)
    ELSE LET copy == host_copy(image)
         IN  IF copy # None THEN Handled(image, Host(copy.val), TRUE)
             ELSE Handled([image EXCEPT !.data = other], image.data, FALSE)

\* PoolImageMut::trade
trade(image, other) ==
    IF meta(image).no_read THEN
        LET s == swap(image, other)
        IN  IF s.panic THEN s ELSE Handled(s.image, s.other, TRUE)
    ELSE LET copy == host_copy(image)
         IN  IF copy # None THEN Handled(image, Host(copy.val), TRUE)
             ELSE Handled(image, other, FALSE)

(***************************************************************************)
(* pool.rs: Pool.  Nothing removes an image, so the slot map's keys are    *)
(* modelled as the positions 1, 2, ... of a sequence; PoolKey::null() is   *)
(* position 0.  Each operation yields the items it leaves and the key of   *)
(* the handle it returns, or panics.                                       *)
(***************************************************************************)

\* Pool::entry
entry(pool, key) == IF key \in DOMAIN pool THEN Some(pool[key]) ELSE None

\* A mutant of new_with_data: the image takes the first key and the images
\* of the pool move one key up.
new_with_data_front(pool, data, texel) ==
    [items |-> <<[meta |-> meta_default, data |-> data, texel |-> texel]>> \o pool,
     result |-> 1, panic |-> FALSE]

\* Pool::new_with_data
new_with_data(pool, data, texel) ==
    [items |-> Append(pool, [meta |-> meta_default, data |-> data, texel |-> texel]),
     result |-> Len(pool) + 1, panic |-> FALSE]

\* Pool::insert
insert(pool, image, texel) == new_with_data(pool, Host(image), texel)

\* image::DynamicImage, as the pool reads it: the variant, the dimensions and
\* the bytes
MkImage(kind, w, h, data) ==
    [kind |-> kind, width |-> w, height |-> h, bytes |-> data]

\* Samples::from(&DynamicImage)
samples_from(image) ==
    CASE image.kind = "ImageLuma8" -> [bits |-> "Int8", parts |-> "Luma"]
      [] image.kind = "ImageLumaA8" -> [bits |-> "Int8x2", parts |-> "LumaA"]
      [] image.kind = "ImageLuma16" -> [bits |-> "Int16", parts |-> "Luma"]
      [] image.kind = "ImageLumaA16" -> [bits |-> "Int16x2", parts |-> "LumaA"]
      [] image.kind = "ImageRgb8" -> [bits |-> "Int8x3", parts |-> "Rgb"]
      [] image.kind = "ImageRgba8" -> [bits |-> "Int8x4", parts |-> "Rgba"]
      [] image.kind = "ImageBgr8" -> [bits |-> "Int8x3", parts |-> "Bgr"]
      [] image.kind = "ImageBgra8" -> [bits |-> "Int8x4", parts |-> "Bgra"]
      [] image.kind = "ImageRgb16" -> [bits |-> "Int16x3", parts |-> "Rgb"]
      [] image.kind = "ImageRgba16" -> [bits |-> "Int16x4", parts |-> "Rgba"]

\* Texel::with_srgb_image
with_srgb_image(image) ==
    [block |-> "Pixel", color |-> SRGB, samples |-> samples_from(image)]

\* image.color().bytes_per_pixel(), of the image crate
bytes_per_pixel(image) ==
    CASE image.kind = "ImageLuma8" -> 1
      [] image.kind \in {"ImageLumaA8", "ImageLuma16"} -> 2
      [] image.kind \in {"ImageRgb8", "ImageBgr8"} -> 3
      [] image.kind \in {"ImageRgba8", "ImageBgra8", "ImageLumaA16"} -> 4
      [] image.kind = "ImageRgb16" -> 6
      [] image.kind = "ImageRgba16" -> 8

\* BufferLayout::from(&DynamicImage): what a call can do, by the build.
\* bytes_per_row is the u32 product width * u32::from(bytes_per_texel).
layout_from(image) ==
    {IF row.tag = "Panic" THEN row
     ELSE [tag |-> "layout",
           val |-> [width |-> image.width, height |-> image.height,
                    bytes_per_texel |-> bytes_per_pixel(image),
                    bytes_per_row |-> row.val]] :
        row \in mul_outcomes("bytes_per_row", image.width, bytes_per_pixel(image))}

\* ImageBuffer::from(&DynamicImage): a buffer of the image's layout and bytes,
\* unless the layout panics
buffer_from(image) ==
    {IF l.tag = "Panic" THEN l
     ELSE [tag |-> "buffer", val |-> [layout |-> l.val, bytes |-> image.bytes]] :
        l \in layout_from(image)}

\* Pool::insert_srgb: the buffer is built before anything is inserted
insert_srgb(pool, image) ==
    {IF buffer.tag = "Panic"
     THEN [items |-> pool, result |-> None, panic |-> TRUE]
     ELSE insert(pool, buffer.val, with_srgb_image(image)) :
        buffer \in buffer_from(image)}

\* A mutant of allocate_like: the bytes of the source are not copied.
allocate_like_zeroed(pool, key) ==
    LET e == entry(pool, key)
    IN  IF e = None THEN [items |-> pool, result |-> None, panic |-> TRUE]
        ELSE new_with_data(pool, Host(buffer_with_layout(layout(e.val))),
                           e.val.texel)

\* Pool::allocate_like
allocate_like(pool, key) ==
    LET e == entry(pool, key)
    IN  IF e = None THEN [items |-> pool, result |-> None, panic |-> TRUE]
        ELSE LET buffer == buffer_with_layout(layout(e.val))
                 data == as_bytes(e.val)
                 copied == IF data # None THEN [buffer EXCEPT !.bytes = data.val]
                           ELSE buffer
             IN  new_with_data(pool, Host(copied), e.val.texel)

\* A mutant of declare: the descriptor is not checked.
declare_unchecked(pool, desc) ==
    new_with_data(pool, LateBound(desc.layout), desc.texel)

\* Pool::declare
declare(pool, desc) ==
    IF ~is_consistent(desc) THEN [items |-> pool, result |-> None, panic |-> TRUE]
    ELSE new_with_data(pool, LateBound(desc.layout), desc.texel)

(***************************************************************************)
(* The pool as a state machine                                             *)
(***************************************************************************)

\* The most images the model puts into a pool.
MaxImages == 2

\* The layouts of the pool's images: one and two texels of one byte.
PoolLayouts == {MkLayout(1, 1, 1), MkLayout(2, 1, 1)}

\* The buffers callers hold: of every layout, with every byte set to 1.
HostBuffers ==
    {[buffer_with_layout(l) EXCEPT !.bytes = [i \in 1..byte_len(l) |-> 1]] :
        l \in PoolLayouts}

\* The image data callers of replace, swap and trade hold.
CallerDatas ==
    {Host(b) : b \in HostBuffers}
        \cup {Gpu("buffer", MkLayout(1, 1, 1), 1),
              GpuTexture("texture", MkLayout(1, 1, 1), 1),
              LateBound(MkLayout(2, 1, 1))}

\* The descriptors callers pass to declare.
PoolDescs == {MkDesc(l, TexR) : l \in PoolLayouts} \cup {DescBad}

\* The colors callers pass to set_color: one that fits the R channel of the
\* pool's images and one that does not.
Colors == {RgbD50, Oklab}

Keys == 1..MaxImages

\* A call c on the pool that leaves the items and the return value of r.
PoolCall(c, r) ==
    /\ Len(r.items) <= MaxImages
    /\ items' = r.items
    /\ prev_items' = items
    /\ created' = [k \in DOMAIN r.items |->
                       IF k \in DOMAIN created THEN created[k]
                       ELSE data_layout(r.items[k].data)]
    /\ call' = c
    /\ ret' = [result |-> r.result, panic |-> r.panic]
    /\ UNCHANGED logvars

\* A call c on the handle of the image at key that leaves what h holds.
HandleCall(key, c, h) ==
    /\ items' = [items EXCEPT ![key] = h.image]
    /\ prev_items' = items
    /\ UNCHANGED created
    /\ call' = c
    /\ ret' = [result |-> h.result, other |-> h.other, panic |-> h.panic]
    /\ UNCHANGED logvars

PoolInsert ==
    \E image \in HostBuffers :
        PoolCall([op |-> "insert"], insert(items, image, TexR))

PoolDeclare ==
    \E desc \in PoolDescs :
        PoolCall([op |-> "declare", desc |-> desc], declare(items, desc))

\* The keys callers pass to allocate_like: PoolKey::null() and the keys of the
\* fullest pool.
AllocateLike ==
    \E key \in 0..MaxImages :
        PoolCall([op |-> "allocate_like", key |-> key], allocate_like(items, key))

\* Crate code writes the pub(crate) flag Image::meta.no_read ("contents need
\* not be preserved"); no function of the pool does.
SetNoRead ==
    \E key \in DOMAIN items, no_read \in BOOLEAN :
        HandleCall(key, [op |-> "set_no_read", key |-> key],
                   Handled([items[key] EXCEPT !.meta.no_read = no_read],
                           None, "Unit"))

\* set_color is called with the colors of Colors and with the color the
\* image carries.
SetColor ==
    \E key \in DOMAIN items : \E color \in Colors \cup {items[key].texel.color} :
        HandleCall(key, [op |-> "set_color", key |-> key, color |-> color],
                   set_color(items[key], color))

\* The bytes callers write through as_bytes_mut: a zero, over the ones of the
\* buffers callers insert.
WrittenBytes == {0}

\* The indexes callers write at: the first byte of the slice.
WrittenIndexes == {1}

AsBytesMut ==
    \E key \in DOMAIN items :
        \E index \in WrittenIndexes, byte \in WrittenBytes :
            HandleCall(key, [op |-> "as_bytes_mut", key |-> key],
                       as_bytes_mut(items[key], index, byte))

HostAllocate ==
    \E key \in DOMAIN items :
        HandleCall(key, [op |-> "host_allocate", key |-> key],
                   host_allocate(items[key]))

Replace ==
    \E key \in DOMAIN items, image \in CallerDatas :
        HandleCall(key, [op |-> "replace", key |-> key, image |-> image],
                   replace(items[key], image))

Swap ==
    \E key \in DOMAIN items, image \in CallerDatas :
        HandleCall(key, [op |-> "swap", key |-> key, image |-> image],
                   swap(items[key], image))

Trade ==
    \E key \in DOMAIN items, image \in CallerDatas :
        HandleCall(key, [op |-> "trade", key |-> key, image |-> image],
                   trade(items[key], image))

NextPool ==
    \/ PoolInsert
    \/ PoolDeclare
    \/ AllocateLike
    \/ SetNoRead
    \/ HostAllocate
    \/ Replace
    \/ Swap
    \/ Trade
    \/ AsBytesMut

SpecPool == Init /\ [][NextPool]_vars

(***************************************************************************)
(* The life of a pool entry: the pool with every operation of the handle,  *)
(* set_color included, on fewer images                                     *)
(***************************************************************************)

\* The most images the pool holds when the color of its images is set too.
MaxEntries == 1

\* The texels callers pass to insert with a buffer of one byte per texel: one
\* of a one byte encoding and one of a four byte encoding.
InsertTexels == {TexR, TexRgba}

EntryInsert ==
    /\ Len(items) < MaxEntries
    /\ \E image \in HostBuffers, texel \in InsertTexels :
           PoolCall([op |-> "insert"], insert(items, image, texel))

EntryDeclare == Len(items) < MaxEntries /\ PoolDeclare

\* The images callers pass to insert_srgb: one grayscale texel, one texel of
\* four channels, and an image without rows that is so wide that the bytes
\* of a row of it exceed u32.
SrgbImages ==
    {MkImage("ImageLuma8", 1, 1, <<1>>),
     MkImage("ImageRgba8", 1, 1, <<1, 1, 1, 1>>),
     MkImage("ImageRgba8", (U32 + 3) \div 4, 0, <<>>)}

EntryInsertSrgb ==
    /\ Len(items) < MaxEntries
    /\ \E image \in SrgbImages : \E r \in insert_srgb(items, image) :
           PoolCall([op |-> "insert_srgb", image |-> image], r)

NextEntry ==
    \/ EntryInsert
    \/ EntryDeclare
    \/ EntryInsertSrgb
    \/ SetNoRead
    \/ SetColor
    \/ HostAllocate
    \/ Replace
    \/ Swap
    \/ Trade
    \/ AsBytesMut

SpecEntry == Init /\ [][NextEntry]_vars

(***************************************************************************)
(* Rectangle as a state machine: a pair of rectangles is drawn and one     *)
(* function is applied to it.  call holds the pair, ret what the function  *)
(* returned.                                                               *)
(***************************************************************************)

\* Every rectangle over the scaled u32.
AllRects ==
    {MkRect(x, y, max_x, max_y) :
        x \in 0..(U32 - 1), y \in 0..(U32 - 1),
        max_x \in 0..(U32 - 1), max_y \in 0..(U32 - 1)}

\* The second rectangles drawn besides the first itself: an extent at the
\* origin, a degenerate one, the largest one and one off the origin.
OtherRects ==
    {with_width_height(2, 1), MkRect(2, 2, 0, 0),
     with_width_height(U32 - 1, U32 - 1), MkRect(1, 3, U32 - 1, 5)}

InitRect ==
    /\ ops = <<>>
    /\ prev_ops = <<>>
    /\ produced = 0
    /\ items = <<>>
    /\ prev_items = <<>>
    /\ created = <<>>
    /\ \E a \in AllRects : \E b \in {a} \cup OtherRects :
           call = [op |-> "rectangle", a |-> a, b |-> b]
    /\ ret = None

\* A function of Rectangle is applied to the pair drawn and returns r.
RectCall(r) ==
    /\ call.op = "rectangle"
    /\ ret = None
    /\ ret' = r
    /\ UNCHANGED <<logvars, poolvars, call>>

RectMeet == RectCall([tag |-> "meet", val |-> meet(call.a, call.b)])

RectJoin == RectCall([tag |-> "join", val |-> join(call.a, call.b)])

RectContains == RectCall([tag |-> "contains", val |-> contains(call.a, call.b)])

RectNormalize == \E r \in normalize_outcomes(call.a) : RectCall(r)

RectWidth == RectCall([tag |-> "width", val |-> width(call.a)])

RectHeight == RectCall([tag |-> "height", val |-> height(call.a)])

\* The borders drawn for inset: none, one, one wider than small rectangles
\* and the largest word.
Borders == {0, 1, 3, U32 - 1}

RectInset ==
    \E border \in Borders :
        RectCall([tag |-> "inset", val |-> inset(call.a, border),
                  border |-> border])

NextRect ==
    \/ RectMeet
    \/ RectJoin
    \/ RectContains
    \/ RectNormalize
    \/ RectWidth
    \/ RectHeight
    \/ RectInset

SpecRect == InitRect /\ [][NextRect]_vars

(***************************************************************************)
(* Block and the pixel extent of a Descriptor (buffer.rs), applied once to *)
(* a descriptor drawn initially                                            *)
(***************************************************************************)

\* enum Block
Blocks == {"Pixel", "Sub1x2", "Sub1x4", "Sub2x2", "Sub2x4", "Sub4x4"}

\* Block::width
block_width(block) ==
    CASE block = "Pixel" -> 1
      [] block \in {"Sub1x2", "Sub2x2"} -> 2
      [] block \in {"Sub1x4", "Sub2x4", "Sub4x4"} -> 4

\* Block::height
block_height(block) ==
    CASE block \in {"Pixel", "Sub1x2", "Sub1x4"} -> 1
      [] block \in {"Sub2x2", "Sub2x4"} -> 2
      [] block = "Sub4x4" -> 3

\* Descriptor::pixel_width
pixel_width(desc) ==
    mul_outcomes("pixel_width", desc.layout.width, block_width(desc.texel.block))

\* Descriptor::pixel_height
pixel_height(desc) ==
    mul_outcomes("pixel_height", desc.layout.height, block_height(desc.texel.block))

\* The descriptors drawn: one byte texels of every block, in every extent.
BlockDescs ==
    {MkDesc(MkLayout(w, h, 1), MkTexel(block, "R", "Int8", SRGB)) :
        w \in 0..(U32 - 1), h \in 0..(U32 - 1), block \in Blocks}

InitBlock ==
    /\ ops = <<>>
    /\ prev_ops = <<>>
    /\ produced = 0
    /\ items = <<>>
    /\ prev_items = <<>>
    /\ created = <<>>
    /\ \E desc \in BlockDescs : call = [op |-> "descriptor", desc |-> desc]
    /\ ret = None

\* A function is applied to the descriptor drawn, or its block, and returns r.
BlockCall(r) ==
    /\ call.op = "descriptor"
    /\ ret = None
    /\ ret' = r
    /\ UNCHANGED <<logvars, poolvars, call>>

BlockWidth ==
    BlockCall([tag |-> "width", val |-> block_width(call.desc.texel.block)])

BlockHeight ==
    BlockCall([tag |-> "height", val |-> block_height(call.desc.texel.block)])

PixelWidth == \E r \in pixel_width(call.desc) : BlockCall(r)

PixelHeight == \E r \in pixel_height(call.desc) : BlockCall(r)

NextBlock ==
    \/ BlockWidth
    \/ BlockHeight
    \/ PixelWidth
    \/ PixelHeight

SpecBlock == InitBlock /\ [][NextBlock]_vars

(***************************************************************************)
(* Properties of the command log                                           *)
(***************************************************************************)

Builders == Producing \cup {"blend", "output"}

\* The builders that take registers and resolve them.
RegBuilders ==
    {"crop", "color_convert", "inscribe", "extract", "inject", "affine", "output"}

\* The registers an instruction reads.
Reads(op) ==
    CASE op.kind \in {"Output", "Unary"} -> {op.src}
      [] op.kind = "Binary" -> {op.lhs, op.rhs}
      [] OTHER -> {}

\* reg is outside the log or names an Output instruction.
IsBadRegister(log, reg) ==
    \/ reg >= Len(log)
    \/ log[reg + 1].kind = "Output"

NumOutputs(log) == Cardinality({i \in 1..Len(log) : log[i].kind = "Output"})

\* C1: a builder call that returns an error leaves the log, its length and its
\* contents, as it was before the call.
C1_ErrorLeavesLog ==
    (call.op \in Builders /\ ret.tag = "Err") => ops = prev_ops

\* An inscribe on two valid registers of a two instruction log was refused
\* with a generic error (a rectangle mismatch or non-containment).
C1_Witness ==
    /\ call.op = "inscribe"
    /\ ret = Err(OTHER_ERR)
    /\ Len(prev_ops) = 2
    /\ \A k \in 1..2 : ~IsBadRegister(prev_ops, call.regs[k])
    /\ prev_ops[call.regs[1] + 1].desc.texel = prev_ops[call.regs[2] + 1].desc.texel
    /\ prev_ops[call.regs[1] + 1].desc.layout # prev_ops[call.regs[2] + 1].desc.layout

\* C2 as stated: the register returned by the Nth successful producing call
\* has index N - 1, output calls interleaved or not.
C2_NthProducedIsNMinus1 ==
    (call.op \in Producing /\ ret.tag = "Ok") => ret.val = produced - 1

\* C2 amended: the register returned by a successful producing call is the
\* index of the instruction it appended, the length of the log before the
\* call; that is N - 1 plus the number of output calls that succeeded before
\* the Nth producing call.
C2_RegisterIsLogIndex ==
    (call.op \in Producing /\ ret.tag = "Ok") =>
        /\ ret.val = Len(prev_ops)
        /\ Len(ops) = ret.val + 1
        /\ ret.val = (produced - 1) + NumOutputs(prev_ops)

\* A producing call succeeded after an output call had been recorded.
C2_Witness ==
    /\ call.op \in Producing
    /\ ret.tag = "Ok"
    /\ NumOutputs(prev_ops) > 0

\* C3: every register an instruction reads has an index strictly smaller than
\* the instruction's own index.
C3_NoForwardReference ==
    \A i \in 1..Len(ops) : \A r \in Reads(ops[i]) : r < i - 1

\* The log holds a Binary instruction that reads the two registers before it.
C3_Witness ==
    \E i \in 1..Len(ops) :
        /\ ops[i].kind = "Binary"
        /\ Reads(ops[i]) = {i - 2, i - 3}

\* C4: a register-taking builder fails with the generic (non-type) error when
\* one of its operands is outside the log or names an Output instruction, and
\* no recorded instruction reads an Output instruction.
C4_BadRegisterIsGeneric ==
    /\ (/\ call.op \in RegBuilders
        /\ \E k \in DOMAIN call.regs : IsBadRegister(prev_ops, call.regs[k]))
           => ret = Err(OTHER_ERR)
    /\ \A i \in 1..Len(ops) : \A r \in Reads(ops[i]) :
           r < Len(ops) => ops[r + 1].kind # "Output"

\* An inject whose below is a value and whose above names an Output
\* instruction was refused.
C4_Witness ==
    /\ call.op = "inject"
    /\ ~IsBadRegister(prev_ops, call.regs[1])
    /\ call.regs[2] < Len(prev_ops)
    /\ prev_ops[call.regs[2] + 1].kind = "Output"
    /\ ret = Err(OTHER_ERR)

\* C5: the descriptor of every Input, Construct, Unary and Binary instruction
\* of the log is consistent: the layout's bytes per texel equal the byte size
\* of the sample encoding.
C5_DescriptorsConsistent ==
    \A i \in 1..Len(ops) : ops[i].kind # "Output" => is_consistent(ops[i].desc)

\* C6: after compile, every instruction at index i that reads register r lies
\* within r's interval: first_use[r] <= i <= last_use[r].
C6_ReadsWithinInterval ==
    (call.op = "compile" /\ ret.tag = "Ok") =>
        \A i \in 1..Len(ops) : \A r \in Reads(ops[i]) :
            ret.first_use[r] <= i - 1 /\ i - 1 <= ret.last_use[r]

\* compile ran on a log with a Binary instruction over two different
\* registers, one of which is read again by a later instruction.
C6_Witness ==
    /\ call.op = "compile"
    /\ ret.tag = "Ok"
    /\ \E i \in 1..Len(ops) :
           /\ ops[i].kind = "Binary"
           /\ ops[i].lhs # ops[i].rhs
           /\ ret.first_use[ops[i].lhs] = i - 1
           /\ ret.first_use[ops[i].rhs] = i - 1

\* C7: after compile, every register that no instruction reads has an empty
\* interval: first_use[r] > last_use[r].
C7_UnreadIsEmpty ==
    (call.op = "compile" /\ ret.tag = "Ok") =>
        \A r \in 0..(Len(ops) - 1) :
            (\A i \in 1..Len(ops) : r \notin Reads(ops[i])) =>
                ret.first_use[r] > ret.last_use[r]

\* compile ran on a log in which register 0 is read and a later register is
\* never read.
C7_Witness ==
    /\ call.op = "compile"
    /\ ret.tag = "Ok"
    /\ \E i \in 1..Len(ops) : 0 \in Reads(ops[i])
    /\ \E r \in 1..(Len(ops) - 1) :
           /\ ops[r + 1].kind # "Output"
           /\ \A i \in 1..Len(ops) : r \notin Reads(ops[i])

\* C38: compile returns Ok on every log the builders can leave, the empty log
\* included: every register an instruction reads is an index of first_use
\* and last_use, whose length is that of the log.
C38_CompileNeverPanics ==
    call.op = "compile" =>
        /\ ret.tag = "Ok"
        /\ DOMAIN ret.last_use = 0..(Len(ops) - 1)
        /\ DOMAIN ret.first_use = 0..(Len(ops) - 1)
        /\ \A i \in 1..Len(ops) : \A r \in Reads(ops[i]) :
               r \in DOMAIN ret.last_use

\* compile returned Ok on a log whose last instruction is a Binary one that
\* reads two registers.
C38_Witness ==
    /\ call.op = "compile"
    /\ ret.tag = "Ok"
    /\ Len(ops) >= 3
    /\ ops[Len(ops)].kind = "Binary"
    /\ ops[Len(ops)].lhs # ops[Len(ops)].rhs

\* compile returned Ok on the empty log.
C38_WitnessEmpty ==
    /\ call.op = "compile"
    /\ ret.tag = "Ok"
    /\ ops = <<>>

\* C16: the program compile returns holds one High instruction for each
\* instruction of the log (besides the Allocate and Discard instructions).
C16_LoweredProgram ==
    (call.op = "compile" /\ ret.tag = "Ok") =>
        Cardinality({i \in DOMAIN ret.val.ops :
                        ret.val.ops[i].kind \notin {"Allocate", "Discard"}})
            = Len(ops)

\* The descriptor of the k-th register operand of the last call, in the log
\* the call was made on.
Operand(k) == prev_ops[call.regs[k] + 1].desc

\* Every register operand of the last call names a value of the log.
OperandsValid ==
    \A k \in DOMAIN call.regs : ~IsBadRegister(prev_ops, call.regs[k])

\* The last call appended one instruction, of descriptor desc, and returned
\* its register.
Appended(desc) ==
    /\ ret = Ok(Len(prev_ops))
    /\ Len(ops) = Len(prev_ops) + 1
    /\ SubSeq(ops, 1, Len(prev_ops)) = prev_ops
    /\ ops[Len(ops)].kind \in {"Unary", "Binary"}
    /\ ops[Len(ops)].desc = desc

\* The last call failed with the error e and appended nothing.
Refused(e) == ret = Err(e) /\ ops = prev_ops

\* C17: color_convert on a valid src fails with a type error, appending
\* nothing, unless the colors of src and of the target both carry a
\* whitepoint (the XYZ class) and the whitepoints are equal; then it succeeds.
C17_ColorConvertContract ==
    (call.op = "color_convert" /\ OperandsValid) =>
        IF /\ Operand(1).texel.color.tag = "Rgb"
           /\ call.texel.color.tag = "Rgb"
           /\ Operand(1).texel.color.whitepoint = call.texel.color.whitepoint
        THEN /\ ret.tag = "Ok"
             /\ Len(ops) = Len(prev_ops) + 1
             /\ ops[Len(ops)].desc.texel = call.texel
        ELSE Refused(TYPE_ERR)

\* A color_convert between two colors that differ only in the whitepoint was
\* refused.
C17_Witness ==
    /\ call.op = "color_convert"
    /\ OperandsValid
    /\ Operand(1).texel.color = SRGB
    /\ call.texel.color = RgbD50
    /\ ret = Err(TYPE_ERR)

\* C18: inscribe on valid registers fails with a type error when the texels
\* of above and below differ; else with a generic error when the rectangle is
\* not the full extent of above or the full extent of below does not contain
\* it; else it succeeds with a register of below's descriptor.
C18_InscribeContract ==
    (call.op = "inscribe" /\ OperandsValid) =>
        IF Operand(2).texel # Operand(1).texel THEN Refused(TYPE_ERR)
        ELSE IF \/ with_layout(Operand(2).layout) # call.rect
                \/ ~contains(with_layout(Operand(1).layout), call.rect)
        THEN Refused(OTHER_ERR)
        ELSE Appended(Operand(1))

\* An inscribe of an image of one texel into an image of two texels succeeded.
C18_Witness ==
    /\ call.op = "inscribe"
    /\ ret.tag = "Ok"
    /\ Operand(1).layout.width = 2
    /\ Operand(2).layout.width = 1
    /\ call.rect = with_width_height(1, 1)

\* C35: the Binary instruction a successful inscribe appends records the
\* rect argument, the full extent of above, as its placement.
C35_InscribePlacement ==
    (call.op = "inscribe" /\ ret.tag = "Ok") =>
        /\ ops[Len(ops)].op.tag = "Inscribe"
        /\ ops[Len(ops)].op.placement = call.rect
        /\ call.rect = with_layout(Operand(2).layout)

\* C19: extract on a valid src fails with a generic error when src's texel
\* has no single-channel projection for the channel; otherwise it succeeds
\* with a register whose texel is that projection.
C19_ExtractContract ==
    (call.op = "extract" /\ OperandsValid) =>
        LET texel == texel_channel_texel(Operand(1).texel, call.channel)
        IN  IF texel = None THEN Refused(OTHER_ERR)
            ELSE /\ ret = Ok(Len(prev_ops))
                 /\ Len(ops) = Len(prev_ops) + 1
                 /\ ops[Len(ops)].desc.texel = texel

\* An extract of the alpha channel of an image without one was refused.
C19_Witness ==
    /\ call.op = "extract"
    /\ OperandsValid
    /\ call.channel = "Alpha"
    /\ Operand(1).texel.samples.parts = "Rgb"
    /\ ret = Err(OTHER_ERR)

\* C20: inject on valid registers fails with a generic error when below's
\* texel has no single-channel projection for the channel, with a type error
\* when the projection differs from above's texel, and otherwise succeeds
\* with a register of below's descriptor.
C20_InjectContract ==
    (call.op = "inject" /\ OperandsValid) =>
        LET expected == texel_channel_texel(Operand(1).texel, call.channel)
        IN  IF expected = None THEN Refused(OTHER_ERR)
            ELSE IF expected # Operand(2).texel THEN Refused(TYPE_ERR)
            ELSE Appended(Operand(1))

\* An inject of a red channel image into an image of four channels succeeded.
C20_Witness ==
    /\ call.op = "inject"
    /\ ret.tag = "Ok"
    /\ Operand(1).texel.samples.parts = "Rgba"
    /\ Operand(2).texel.samples.parts = "R"
    /\ call.channel = "R"

\* The second operand of the last call is a register that extract issued for
\* the call's first operand and the call's channel.
AboveIsExtractOfBelow ==
    /\ Len(call.regs) = 2
    /\ call.regs[2] < Len(prev_ops)
    /\ LET e == prev_ops[call.regs[2] + 1]
       IN  /\ e.kind = "Unary"
           /\ e.op.tag = "Extract"
           /\ e.src = call.regs[1]
           /\ e.op.channel = call.channel

\* C37: inject(src, ch, e), where e is the register a successful
\* extract(src, ch) returned, succeeds and returns a register whose
\* descriptor is that of src.
C37_ExtractInjectCompose ==
    (call.op = "inject" /\ AboveIsExtractOfBelow) =>
        /\ ret = Ok(Len(prev_ops))
        /\ describe_reg(ops, ret.val) = Ok(Operand(1))

\* The red channel extracted from an image of four channels was injected into
\* that image.
C37_Witness ==
    /\ call.op = "inject"
    /\ AboveIsExtractOfBelow
    /\ ret.tag = "Ok"
    /\ Operand(1).texel.samples.parts = "Rgba"
    /\ Operand(2).texel.samples.parts = "R"
    /\ Operand(2).layout = Operand(1).layout
    /\ ops[Len(ops)].desc = Operand(1)

\* C21: crop on a valid src succeeds for every rectangle, degenerate ones
\* included, and affine for every transformation; each returns a new register
\* whose descriptor is src's.
C21_CropAffineKeepDescriptor ==
    (call.op \in {"crop", "affine"} /\ OperandsValid) =>
        /\ Appended(Operand(1))
        /\ ops[Len(ops)].kind = "Unary"
        /\ ops[Len(ops)].src = call.regs[1]

\* A crop to a rectangle whose maxima lie below its minima succeeded.
C21_Witness ==
    /\ call.op = "crop"
    /\ ret.tag = "Ok"
    /\ ops[Len(ops)].op.tag = "Crop"
    /\ ops[Len(ops)].op.rect = MkRect(2, 2, 0, 0)
    /\ width(ops[Len(ops)].op.rect) = 0

\* C22: output on a valid src succeeds, appends exactly one Output instruction
\* that names src, returns src's descriptor and issues no register.
C22_OutputContract ==
    (call.op = "output" /\ OperandsValid) =>
        /\ ret = Ok(Operand(1))
        /\ Len(ops) = Len(prev_ops) + 1
        /\ SubSeq(ops, 1, Len(prev_ops)) = prev_ops
        /\ ops[Len(ops)] = OpOutput(call.regs[1])
        /\ produced = Len(prev_ops) - NumOutputs(prev_ops)

\* input, crop and output were called in this order: two registers were
\* issued and the log holds three instructions.
C22_Witness ==
    /\ call.op = "output"
    /\ ret.tag = "Ok"
    /\ Len(ops) = 3
    /\ ops[1].kind = "Input"
    /\ ops[2].kind = "Unary"
    /\ ops[2].op.tag = "Crop"
    /\ ops[3].kind = "Output"
    /\ call.regs[1] = 1
    /\ produced = 2

\* The indices of the instructions of the log that read register r.
Readers(log, r) == {i \in 0..(Len(log) - 1) : r \in Reads(log[i + 1])}

\* The smallest and the largest element of a non-empty set of indices.
Smallest(S) == CHOOSE i \in S : \A j \in S : i <= j
Largest(S) == CHOOSE i \in S : \A j \in S : i >= j

\* What the contents of a log determine: the interval of every register, from
\* the first to the last instruction that reads it (from the length of the
\* log to 0 when none does), and the program, which holds no instruction.
CompiledFrom(log) ==
    [tag |-> "Ok", val |-> [ops |-> <<>>],
     last_use |-> [r \in 0..(Len(log) - 1) |->
                      IF Readers(log, r) = {} THEN 0
                      ELSE Largest(Readers(log, r))],
     first_use |-> [r \in 0..(Len(log) - 1) |->
                       IF Readers(log, r) = {} THEN Len(log)
                       ELSE Smallest(Readers(log, r))]]

\* C15: what compile returns, the program and the intervals, is determined
\* by the contents of the log, whatever calls were made before, and compile
\* leaves the log as it was; so a compile that follows a compile, no builder
\* call between them, returns what the first returned.
C15_ResultFromLogAlone ==
    call.op = "compile" =>
        /\ ops = prev_ops
        /\ ret = CompiledFrom(prev_ops)

\* A log in which one register is read and another is not was compiled twice
\* in a row.
C15_Witness ==
    /\ call.op = "compile"
    /\ call.again
    /\ ret.tag = "Ok"
    /\ \E r \in DOMAIN ret.last_use : ret.first_use[r] <= ret.last_use[r]
    /\ \E r \in DOMAIN ret.last_use : ret.first_use[r] > ret.last_use[r]

\* C29: after compile, for every register r that some instruction reads,
\* first_use[r] is the smallest index of an instruction reading r and
\* last_use[r] the largest, also when r is both operands of one Binary
\* instruction.  Input and Construct instructions extend no interval: in a
\* log of these alone every interval is as the scan initialised it.
C29_IntervalsExact ==
    (call.op = "compile" /\ ret.tag = "Ok") =>
        /\ \A r \in 0..(Len(ops) - 1) :
               Readers(ops, r) # {} =>
                   /\ ret.first_use[r] = Smallest(Readers(ops, r))
                   /\ ret.last_use[r] = Largest(Readers(ops, r))
        /\ (\A i \in 1..Len(ops) : ops[i].kind \in {"Input", "Construct"}) =>
               \A r \in 0..(Len(ops) - 1) :
                   ret.first_use[r] = Len(ops) /\ ret.last_use[r] = 0

\* compile ran on a log in which one register is both operands of a Binary
\* instruction and is read again by a later instruction.
C29_Witness ==
    /\ call.op = "compile"
    /\ ret.tag = "Ok"
    /\ \E i \in 1..Len(ops) :
           /\ ops[i].kind = "Binary"
           /\ ops[i].lhs = ops[i].rhs
           /\ ret.first_use[ops[i].lhs] = i - 1
           /\ ret.last_use[ops[i].lhs] > i - 1

\* C30: a successful builder call appends exactly one instruction and leaves
\* the instructions recorded before it as they were, so a register issued
\* before the call resolves to the descriptor it resolved to; a failed call
\* and compile leave the log as it was.
C30_AppendOnly ==
    /\ (call.op \in Builders /\ ret.tag = "Ok") =>
           /\ Len(ops) = Len(prev_ops) + 1
           /\ SubSeq(ops, 1, Len(prev_ops)) = prev_ops
    /\ call.op = "compile" => ops = prev_ops
    /\ \A r \in 0..(Len(prev_ops) - 1) :
           describe_reg(ops, r) = describe_reg(prev_ops, r)

\* A builder call succeeded on a log of two instructions of different
\* descriptors.
C30_Witness ==
    /\ call.op \in Builders
    /\ ret.tag = "Ok"
    /\ Len(prev_ops) = 2
    /\ describe_reg(prev_ops, 0).tag = "Ok"
    /\ describe_reg(prev_ops, 1).tag = "Ok"
    /\ describe_reg(ops, 0) # describe_reg(ops, 1)

(***************************************************************************)
(* Properties of the pool                                                  *)
(***************************************************************************)

\* The image a handle call was made on, as it was before the call.
Before == prev_items[call.key]

\* C8: trade on an image whose no_read flag is set, with caller data of the
\* image's layout, succeeds and exchanges the two stores: the image holds the
\* caller's prior store and the caller holds the image's prior store.
C8_TradeSwaps ==
    (/\ call.op = "trade"
     /\ Before.meta.no_read
     /\ data_layout(call.image) = layout(Before))
        => /\ ~ret.panic
           /\ ret.result = TRUE
           /\ items[call.key].data = call.image
           /\ ret.other = Before.data
           /\ items[call.key].meta = Before.meta
           /\ items[call.key].texel = Before.texel

\* A trade exchanged a host buffer of the pool for device data of the caller.
C8_Witness ==
    /\ call.op = "trade"
    /\ Before.meta.no_read
    /\ Before.data.kind = "Host"
    /\ call.image.kind = "Gpu"
    /\ ~ret.panic
    /\ ret.result = TRUE
    /\ ret.other.kind = "Host"
    /\ items[call.key].data.kind = "Gpu"

\* C9: trade on an image whose no_read flag is clear and whose store is host
\* resident succeeds, leaves the image (and the pool) unchanged and leaves the
\* caller with a host buffer holding the image's bytes.
C9_TradeCopies ==
    (/\ call.op = "trade"
     /\ ~Before.meta.no_read
     /\ Before.data.kind = "Host")
        => /\ ~ret.panic
           /\ ret.result = TRUE
           /\ items = prev_items
           /\ ret.other.kind = "Host"
           /\ ret.other.host.bytes = Before.data.host.bytes

\* A trade copied a buffer of two bytes, the first of which was written
\* through as_bytes_mut, over device data the caller held.
C9_Witness ==
    /\ call.op = "trade"
    /\ ~Before.meta.no_read
    /\ Before.data.kind = "Host"
    /\ Before.data.host.bytes = <<0, 1>>
    /\ ret.other.host.bytes = <<0, 1>>
    /\ call.image.kind = "GpuTexture"
    /\ ~ret.panic
    /\ ret.result = TRUE
    /\ ret.other.kind = "Host"

\* C10: trade on an image whose no_read flag is clear and whose store is a
\* device buffer, a device texture or late bound reports failure and changes
\* neither the image's store nor the caller's data.
C10_TradeFails ==
    (/\ call.op = "trade"
     /\ ~Before.meta.no_read
     /\ Before.data.kind \in {"Gpu", "GpuTexture", "LateBound"})
        => /\ ~ret.panic
           /\ ret.result = FALSE
           /\ items = prev_items
           /\ ret.other = call.image

\* A trade was refused on a device buffer, the caller holding a host buffer,
\* in a pool that also holds a late bound image.
C10_Witness ==
    /\ call.op = "trade"
    /\ ~Before.meta.no_read
    /\ Before.data.kind = "Gpu"
    /\ call.image.kind = "Host"
    /\ ~ret.panic
    /\ ret.result = FALSE
    /\ Len(items) = 2
    /\ \E k \in DOMAIN items : items[k].data.kind = "LateBound"

\* C39: whenever trade returns success, by a swap or by a copy, the caller's
\* data has the layout it had before the call; data of another layout than
\* the image's is never accepted.
C39_TradeKeepsCallerLayout ==
    (call.op = "trade" /\ ~ret.panic /\ ret.result = TRUE)
        => data_layout(ret.other) = data_layout(call.image)

(***************************************************************************)
(* Properties of a pool entry                                              *)
(***************************************************************************)

\* C11: the layout an entry reports equals the layout it had when it was
\* created, whatever host_allocate, replace, swap, trade and set_color calls
\* were made on it (a call that panics leaves the entry as it was).
C11_LayoutPreserved ==
    \A key \in DOMAIN items : layout(items[key]) = created[key]

\* An entry declared with two texels has had its color set and has since been
\* allocated on the host and handed the caller's buffer by a swap.
C11_Witness ==
    /\ call.op = "swap"
    /\ ~ret.panic
    /\ created[call.key] = MkLayout(2, 1, 1)
    /\ items[call.key].texel.color = RgbD50
    /\ Before.data.kind = "Host"
    /\ Before.data.host.bytes = <<0, 0>>
    /\ items[call.key].data.kind = "Host"
    /\ items[call.key].data.host.bytes = <<1, 1>>

\* C12: an entry whose store is a host buffer, a device buffer or a device
\* texture is not late bound after the next call, whichever of host_allocate,
\* replace, swap and trade it is.
C12_NeverLateBoundAgain ==
    \A key \in DOMAIN prev_items :
        prev_items[key].data.kind # "LateBound"
            => items[key].data.kind # "LateBound"

\* C13: replace and swap with data of another layout panic and leave the
\* entry (and, for swap, the caller's data) as it was; with data of the
\* entry's layout replace installs the data and returns the displaced store,
\* and swap leaves each side with the other's store.
C13_ReplaceSwapContract ==
    call.op \in {"replace", "swap"} =>
        IF data_layout(call.image) # layout(Before)
        THEN /\ ret.panic
             /\ items = prev_items
             /\ call.op = "swap" => ret.other = call.image
        ELSE /\ ~ret.panic
             /\ items[call.key].data = call.image
             /\ items = [prev_items EXCEPT ![call.key].data = call.image]
             /\ call.op = "replace" => ret.result = Before.data
             /\ call.op = "swap" => ret.other = Before.data

\* A replace with a host buffer of two texels panicked on an entry that holds
\* a device texture of one texel.
C13_Witness ==
    /\ call.op = "replace"
    /\ ret.panic
    /\ Before.data.kind = "GpuTexture"
    /\ call.image.kind = "Host"
    /\ data_layout(call.image) = MkLayout(2, 1, 1)
    /\ items[call.key].data.kind = "GpuTexture"

\* The entry a pool call returned the key of.
Returned == items[ret.result]

\* C14: declare panics and adds no entry when the descriptor's bytes per texel
\* differ from the byte size of its sample encoding; otherwise it adds exactly
\* one entry, late bound, whose descriptor is the one given.
C14_DeclareContract ==
    call.op = "declare" =>
        IF bytes(call.desc.texel.samples.bits) # call.desc.layout.bytes_per_texel
        THEN ret.panic /\ items = prev_items
        ELSE /\ ~ret.panic
             /\ Len(items) = Len(prev_items) + 1
             /\ SubSeq(items, 1, Len(prev_items)) = prev_items
             /\ ret.result = Len(items)
             /\ Returned.data.kind = "LateBound"
             /\ descriptor(Returned) = call.desc

\* A declare with a descriptor of a four byte encoding in a three byte layout
\* panicked on a pool that holds an image.
C14_Witness ==
    /\ call.op = "declare"
    /\ call.desc.layout.bytes_per_texel = 3
    /\ bytes(call.desc.texel.samples.bits) = 4
    /\ ret.panic
    /\ Len(items) = 1

\* The calls that create an image.
Creating == {"insert", "declare", "allocate_like"}

\* C24: the key a creating call returns names no image of the pool before the
\* call and is not the null key; every key of the pool names the same image
\* after a creating call as before it, and no call removes a key.
C24_KeysStable ==
    /\ entry(items, 0) = None
    /\ \A key \in DOMAIN prev_items : entry(items, key) # None
    /\ (call.op \in Creating /\ ~ret.panic) =>
           /\ entry(prev_items, ret.result) = None
           /\ entry(items, ret.result) # None
           /\ \A key \in DOMAIN prev_items :
                  entry(items, key) = entry(prev_items, key)

\* A declare on a pool whose one image had become a device buffer returned
\* the second key.
C24_Witness ==
    /\ call.op = "declare"
    /\ ~ret.panic
    /\ ret.result = 2
    /\ Len(prev_items) = 1
    /\ prev_items[1].data.kind = "Gpu"
    /\ items[1].data.kind = "Gpu"
    /\ items[2].data.kind = "LateBound"

\* C25: allocate_like on a key of the pool adds exactly one image, host
\* backed, of the layout and texel of the source and with the source's bytes
\* when the source is host resident, and leaves the source unchanged; on any
\* other key it panics and adds nothing.
C25_AllocateLikeContract ==
    call.op = "allocate_like" =>
        IF call.key \in DOMAIN prev_items
        THEN /\ ~ret.panic
             /\ Len(items) = Len(prev_items) + 1
             /\ SubSeq(items, 1, Len(prev_items)) = prev_items
             /\ Returned.data.kind = "Host"
             /\ layout(Returned) = layout(Before)
             /\ Returned.texel = Before.texel
             /\ Before.data.kind = "Host"
                    => Returned.data.host.bytes = Before.data.host.bytes
        ELSE ret.panic /\ items = prev_items

\* allocate_like copied a host buffer of two bytes, the first of which was
\* written through as_bytes_mut.
C25_Witness ==
    /\ call.op = "allocate_like"
    /\ ~ret.panic
    /\ Before.data.kind = "Host"
    /\ Before.data.host.bytes = <<0, 1>>
    /\ Returned.data.host.bytes = <<0, 1>>
    /\ ret.result # call.key

\* A write through as_bytes_mut reaches the image's buffer and nothing else:
\* host data has the byte written and is otherwise as before, other data has
\* no slice and is left alone.
AsBytesMutWrites ==
    call.op = "as_bytes_mut" =>
        /\ ~ret.panic
        /\ \A k \in DOMAIN items : k # call.key => items[k] = prev_items[k]
        /\ items[call.key].meta = Before.meta
        /\ items[call.key].texel = Before.texel
        /\ layout(items[call.key]) = layout(Before)
        /\ Before.data.kind # "Host" => items = prev_items

\* C34: the image allocate_like creates carries the flags, no_read and
\* no_write, of the source image.
C34_AllocateLikeKeepsMeta ==
    (call.op = "allocate_like" /\ ~ret.panic) => Returned.meta = Before.meta

\* C23: every image whose data is a device buffer or a device texture has a
\* layout that matches its texel: the layout's bytes per texel equal the byte
\* size of the texel's sample encoding.
C23_DeviceLayoutMatchesTexel ==
    \A key \in DOMAIN items :
        items[key].data.kind \in {"Gpu", "GpuTexture"}
            => is_consistent(descriptor(items[key]))

\* C40: set_color with the color an image carries returns and leaves the
\* image as it was, for every image that insert, insert_srgb or declare
\* created: the color of an image is consistent with its sample parts.
C40_OwnColorAccepted ==
    /\ (call.op = "set_color" /\ call.color = Before.texel.color)
           => (~ret.panic /\ items = prev_items)
    /\ \A key \in DOMAIN items :
           color_is_consistent(items[key].texel.color,
                               items[key].texel.samples.parts)

\* C26: set_color panics and leaves the image as it was unless the color is
\* consistent with the image's sample parts; when it returns, the color of
\* the image's texel is the one given and the data, the layout, the block,
\* the samples and the flags are as before.
C26_SetColorContract ==
    call.op = "set_color" =>
        IF color_is_consistent(call.color, Before.texel.samples.parts)
        THEN /\ ~ret.panic
             /\ items[call.key].texel.color = call.color
             /\ items[call.key].texel.samples = Before.texel.samples
             /\ items[call.key].texel.block = Before.texel.block
             /\ items[call.key].data = Before.data
             /\ items[call.key].meta = Before.meta
             /\ layout(items[call.key]) = layout(Before)
        ELSE ret.panic /\ items = prev_items

\* set_color changed the color of an image that holds a device buffer and has
\* its no_read flag set.
C26_Witness ==
    /\ call.op = "set_color"
    /\ ~ret.panic
    /\ Before.texel.color = SRGB
    /\ items[call.key].texel.color = RgbD50
    /\ items[call.key].data.kind = "Gpu"
    /\ items[call.key].meta.no_read

(***************************************************************************)
(* Properties of Rectangle                                                 *)
(***************************************************************************)

\* C27: meet(a, b) = meet(b, a), meet(r, r) = r, join(r, r) = r and r
\* contains r, for all rectangles, degenerate ones included.
C27_RectangleLaws ==
    /\ ret.tag = "meet" =>
           /\ ret.val = meet(call.b, call.a)
           /\ call.a = call.b => ret.val = call.a
    /\ (ret.tag = "join" /\ call.a = call.b) => ret.val = call.a
    /\ (ret.tag = "contains" /\ call.a = call.b) => ret.val = TRUE

\* contains was applied to a rectangle, whose maxima lie below its minima,
\* and itself.
C27_Witness ==
    /\ ret.tag = "contains"
    /\ call.a = call.b
    /\ call.a.max_x < call.a.x
    /\ call.a.max_y < call.a.y
    /\ ret.val = TRUE

\* C28: normalize returns, for every rectangle, a rectangle of the same
\* width.
C28_NormalizeKeepsWidth ==
    ret.tag \in {"normalize", "Panic"} =>
        /\ ret.tag = "normalize"
        /\ width(ret.val) = width(call.a)

\* The functions of Rectangle that return a value.
RectFunctions ==
    {"width", "height", "contains", "normalize", "meet", "join", "inset"}

\* C31: width, height, contains, normalize, meet, join and inset return a
\* value for every rectangle, degenerate ones included: no addition or
\* subtraction of theirs leaves the u32 range.
C31_ArithmeticTotal ==
    (call.op = "rectangle" /\ ret # None) => ret.tag \in RectFunctions

\* C32: a rectangle r with x <= max_x and y <= max_y contains r.inset(b) for
\* every border b, also one wider than r.
C32_InsetContained ==
    (ret.tag = "inset" /\ call.a.x <= call.a.max_x /\ call.a.y <= call.a.max_y)
        => contains(call.a, ret.val)

\* C36: normalize returns a rectangle with x <= max_x and y <= max_y as it
\* is, and returns a rectangle of the same height for every rectangle.
C36_NormalizeIdentity ==
    ret.tag \in {"normalize", "Panic"} =>
        /\ ret.tag = "normalize"
        /\ height(ret.val) = height(call.a)
        /\ (call.a.x <= call.a.max_x /\ call.a.y <= call.a.max_y)
               => ret.val = call.a

(***************************************************************************)
(* Properties of Block                                                     *)
(***************************************************************************)

\* The pixels a texel of the block spans across the width, by the
\* documentation of the variants of Block: SubHxW names the height before the
\* width, Sub1x2 being two pixels across the width.
DocumentedWidth(block) ==
    CASE block = "Pixel" -> 1
      [] block \in {"Sub1x2", "Sub2x2"} -> 2
      [] block \in {"Sub1x4", "Sub2x4", "Sub4x4"} -> 4

\* The pixels a texel of the block spans across the height.
DocumentedHeight(block) ==
    CASE block \in {"Pixel", "Sub1x2", "Sub1x4"} -> 1
      [] block \in {"Sub2x2", "Sub2x4"} -> 2
      [] block = "Sub4x4" -> 4

\* C33: width() and height() return the documented extent of every block,
\* and pixel_width and pixel_height return the extent of the layout times
\* it, where the product is a u32.
C33_BlockExtent ==
    LET block == call.desc.texel.block
        extent == call.desc.layout
    IN  call.op = "descriptor" =>
            /\ ret.tag = "width" => ret.val = DocumentedWidth(block)
            /\ ret.tag = "height" => ret.val = DocumentedHeight(block)
            /\ (ret.tag = "pixel_width"
                    /\ extent.width * DocumentedWidth(block) < U32)
                   => ret.val = extent.width * DocumentedWidth(block)
            /\ (ret.tag = "pixel_height"
                    /\ extent.height * DocumentedHeight(block) < U32)
                   => ret.val = extent.height * DocumentedHeight(block)
====
